---------------------------- MODULE Spec2Model ----------------------------
(*************************************************************************)
(* A model of SoftRT.cpp: the ray-sphere solver Intersect, the shadow    *)
(* test TraceRayOcclusion, the recursive shader TraceRayRecurse and the  *)
(* pixel loop of Render.                                                 *)
(*                                                                       *)
(* Numbers.  The program computes in binary32 floats.  The model holds   *)
(* every float on a fixed grid of integers:                              *)
(*   - points, lengths and radii in units of 1/PosScale,                 *)
(*   - ray directions and unit vectors in units of 1/DirScale,           *)
(*   - colours and scalar weights in units of 1/ColScale.                *)
(* The coefficients a, b, c and the discriminant of Intersect are exact  *)
(* integers on these grids.  A root (-b +- sqrt(disc)) / (2a) is kept as *)
(* the record [nb, s, disc, den] so that its sign and the order of two   *)
(* roots are decided exactly; only the coordinates of a returned point   *)
(* are rounded to the grid.  Float rounding error is not modelled.       *)
(*************************************************************************)
EXTENDS Integers, Sequences, FiniteSets, TLC

(*************************************************************************)
(* Grids and arithmetic                                                  *)
(*************************************************************************)
PosScale == 10 * 10 * 10
DirScale == 2 * 2
ColScale == 10 * 10 * 10

\* const float kEpsilon = 0.00001f, on the grid of the discriminant
\* (direction^2 * position^2).
kEpsilon == ((DirScale * PosScale) * (DirScale * PosScale)) \div 100000

\* FLT_MAX: larger than every distance of the model.
FLT_MAX == 2147483647

Abs(x) == IF x < 0 THEN -x ELSE x

Sign(x) == IF x < 0 THEN -1 ELSE 1

\* n / d rounded to the nearest grid value, halves away from zero (d > 0).
DivRound(n, d) == Sign(n) * ((2 * Abs(n) + d) \div (2 * d))

\* n / d rounded toward zero (d > 0).
DivTrunc(n, d) == IF n < 0 THEN -((-n) \div d) ELSE n \div d

\* sqrtf on the grid: the least n with n * n >= x, found by bisection.
RECURSIVE SqrtSearch(_, _, _)
SqrtSearch(x, lo, hi) ==
    IF lo >= hi THEN lo
    ELSE LET mid == (lo + hi) \div 2
         IN  IF mid * mid >= x THEN SqrtSearch(x, lo, mid)
             ELSE SqrtSearch(x, mid + 1, hi)

sqrtf(x) == SqrtSearch(x, 0, 46340)

(*************************************************************************)
(* Vector3                                                               *)
(*************************************************************************)
Dot(u, v) == u[1] * v[1] + u[2] * v[2] + u[3] * v[3]

Length(v) == sqrtf(Dot(v, v))

Sub(u, v) == <<u[1] - v[1], u[2] - v[2], u[3] - v[3]>>

Add(u, v) == <<u[1] + v[1], u[2] + v[2], u[3] + v[3]>>

\* operator*(float) with the scalar given as the fraction n / d.
Scale(v, n, d) == <<DivRound(v[1] * n, d), DivRound(v[2] * n, d), DivRound(v[3] * n, d)>>

\* v * (n / d) rounded toward zero.
ScaleDown(v, n, d) == <<DivTrunc(v[1] * n, d), DivTrunc(v[2] * n, d), DivTrunc(v[3] * n, d)>>

\* Normalize: *this * (1 / Length()), the result on the direction grid.
\* Rounded toward zero so that the result is never longer than 1.
Normalize(v) == ScaleDown(v, DirScale, Length(v))

(*************************************************************************)
(* Roots of the quadratic, kept exact                                    *)
(*************************************************************************)
\* (-1.0f * b + s * sqrtf(discriminant)) / (2.0f * a), s = 1 or -1.
Root(a, b, discriminant, s) == [nb |-> -b, s |-> s, disc |-> discriminant, den |-> 2 * a]

\* t >= 0.0f for a root t with den > 0: nb + s * sqrt(disc) >= 0.
NonNeg(t) ==
    IF t.s = 1 THEN t.nb >= 0 \/ t.disc >= t.nb * t.nb
    ELSE t.nb >= 0 /\ t.nb * t.nb >= t.disc

\* x < y for two roots of the same quadratic (same nb, disc and den > 0).
Less(x, y) == x.s < y.s /\ x.disc > 0

\* ray.origin + ray.direction * t, rounded to the position grid.
PointAt(ray, t) ==
    Add(ray.origin, Scale(ray.direction, t.nb + t.s * sqrtf(t.disc), t.den))

(*************************************************************************)
(* Intersect (SoftRT.cpp 109-149).  An element of the result is the      *)
(* point p; the root t it was computed from is kept beside it so that    *)
(* properties about parametric distance can be stated.                   *)
(*************************************************************************)
Hit(ray, t) == [p |-> PointAt(ray, t), t |-> t]

\* Mutant of SwapNeeded: the swap is left out.
SwapNever(t0, t1) == FALSE

\* "Order by distance": the swap is made when t1 < t0 (both are >= 0 here).
SwapNeeded(t0, t1) == (NonNeg(t0) /\ NonNeg(t1)) /\ Less(t1, t0)

\* Mutant of TwoRoots: the guard is 0 instead of kEpsilon.
TwoRootsAnyPositive(discriminant) == discriminant > 0

\* The second root is computed only when the discriminant exceeds kEpsilon.
TwoRoots(discriminant) == discriminant > kEpsilon

\* Mutant of Emit: the test t >= 0 is left out.
EmitAlways(t) == TRUE

\* The guard under which a root's point is emitted.
Emit(t) == NonNeg(t)

\* Lines 112-116: the coefficients of the quadratic and its discriminant.
Quadratic(a, b, c) == [a |-> a, b |-> b, c |-> c, discriminant |-> b * b - 4 * a * c]

\* Mutant of CoeffsOf: the factor 2 of b is left out.
CoeffsOfNoTwo(direction, rayOriginToSphereCenter, radius) ==
    Quadratic(Dot(direction, direction),
              Dot(direction, rayOriginToSphereCenter),
              Dot(rayOriginToSphereCenter, rayOriginToSphereCenter) - radius * radius)

CoeffsOf(direction, rayOriginToSphereCenter, radius) ==
    Quadratic(Dot(direction, direction),
              2 * Dot(direction, rayOriginToSphereCenter),
              Dot(rayOriginToSphereCenter, rayOriginToSphereCenter) - radius * radius)

Coeffs(ray, sphere) ==
    CoeffsOf(ray.direction, Sub(ray.origin, sphere.center), sphere.radius)

\* Lines 126-130: the point of t0, when t0 >= 0.
EmitFirst(ray, t0) == IF Emit(t0) THEN <<Hit(ray, t0)>> ELSE <<>>

\* Lines 140-143: the two points in the order of their roots.
Order(t0, t1, result) ==
    IF SwapNeeded(t0, t1) THEN <<result[2], result[1]>> ELSE result

\* Lines 134-144: the point of t1, when t1 >= 0, added to the result.
EmitSecond(ray, t0, t1, result) ==
    IF Emit(t1) THEN Order(t0, t1, Append(result, Hit(ray, t1))) ELSE result

\* Lines 118-148, given the quadratic q.
Solve(ray, q) ==
    IF q.discriminant < 0 THEN <<>>
    ELSE IF TwoRoots(q.discriminant)
         THEN EmitSecond(ray, Root(q.a, q.b, q.discriminant, 1),
                         Root(q.a, q.b, q.discriminant, -1),
                         EmitFirst(ray, Root(q.a, q.b, q.discriminant, 1)))
         ELSE EmitFirst(ray, Root(q.a, q.b, q.discriminant, 1))

Intersect(ray, sphere) == Solve(ray, Coeffs(ray, sphere))

(*************************************************************************)
(* TraceRayOcclusion (SoftRT.cpp 151-162)                                *)
(*************************************************************************)
RECURSIVE OcclusionFrom(_, _, _)
OcclusionFrom(ray, spheres, k) ==
    IF k > Len(spheres) THEN FALSE
    ELSE IF Len(Intersect(ray, spheres[k])) # 0 THEN TRUE
    ELSE OcclusionFrom(ray, spheres, k + 1)

\* Mutant of TraceRayOcclusion: the loop returns after the first sphere.
TraceRayOcclusionFirstOnly(ray, spheres) ==
    Len(spheres) > 0 /\ Len(Intersect(ray, spheres[1])) # 0

TraceRayOcclusion(ray, spheres) == OcclusionFrom(ray, spheres, 1)

(*************************************************************************)
(* Constants of the shader                                               *)
(*************************************************************************)
\* Vector3{ 1.0f, 1.0f, -1.0f }.Normalize()
LightDir == Normalize(<<DirScale, DirScale, -DirScale>>)

\* Vector3{ 0.75f, 0.75f, 1.0f }
SkyCol == <<(3 * ColScale) \div 4, (3 * ColScale) \div 4, ColScale>>

White == <<ColScale, ColScale, ColScale>>

MaxDepth == 8
specularExp == 128
numSamples == 1

\* const float ambient = 0.15f
ambient == (15 * ColScale) \div 100

\* The materials of Render, colour and roughness in thousandths.
Materials == <<
    [color |-> <<750, 1000, 750>>,  roughness |-> 975],
    [color |-> <<0, 0, 1000>>,      roughness |-> 900],
    [color |-> <<1000, 0, 0>>,      roughness |-> 900],
    [color |-> <<0, 1000, 0>>,      roughness |-> 1000],
    [color |-> <<1000, 1000, 0>>,   roughness |-> 985],
    [color |-> <<0, 1000, 1000>>,   roughness |-> 985],
    [color |-> <<1000, 0, 1000>>,   roughness |-> 985],
    [color |-> <<1000, 1000, 1000>>, roughness |-> 950],
    [color |-> <<250, 250, 1000>>,  roughness |-> 950],
    [color |-> <<1000, 250, 250>>,  roughness |-> 950],
    [color |-> <<500, 1000, 250>>,  roughness |-> 950],
    [color |-> <<1000, 1000, 250>>, roughness |-> 900],
    [color |-> <<250, 1000, 1000>>, roughness |-> 900],
    [color |-> <<1000, 250, 1000>>, roughness |-> 900] >>

\* Vector3 camPos{ 0.0f, 0.0f, -2.0f }
camPos == <<0, 0, -2 * PosScale>>

(*************************************************************************)
(* Scalars on the colour grid                                            *)
(*************************************************************************)
Mul(x, y) == DivRound(x * y, ColScale)

Max(a, b) == IF a > b THEN a ELSE b

Saturate(in) == IF in < 0 THEN 0 ELSE IF in > ColScale THEN ColScale ELSE in

\* val0 + (val1 - val0) * t on colours.
Lerp(val0, val1, t) == Add(val0, Scale(Sub(val1, val0), t, ColScale))

Square(x) == Mul(x, x)

\* powf(x, n) for a whole n >= 0, by repeated squaring.
RECURSIVE powf(_, _)
powf(x, n) ==
    IF n = 0 THEN ColScale
    ELSE IF n % 2 = 1 THEN Mul(Square(powf(x, n \div 2)), x)
    ELSE Square(powf(x, n \div 2))

\* The dot product of two vectors of the direction grid, as a scalar.
DirDot(u, v) == DivRound(Dot(u, v) * ColScale, DirScale * DirScale)

(*************************************************************************)
(* TraceRayRecurse (SoftRT.cpp 181-255), in the steps of its body        *)
(*************************************************************************)
\* Mutant of ScanInit: closestDist starts at 0 instead of FLT_MAX.
ScanInitZero ==
    [closestDist  |-> 0,
     normal       |-> <<0, DirScale, 0>>,
     intersection |-> <<0, 0, 0>>,
     color        |-> <<0, 0, 0>>,
     eye          |-> <<0, 0, 0>>,
     roughness    |-> 0]

\* Lines 183-188: the locals before the loop over the spheres.
ScanInit ==
    [closestDist  |-> FLT_MAX,
     normal       |-> <<0, DirScale, 0>>,
     intersection |-> <<0, 0, 0>>,
     color        |-> <<0, 0, 0>>,
     eye          |-> <<0, 0, 0>>,
     roughness    |-> 0]

\* Mutant of Closer: a sphere at the same distance replaces the closest.
CloserOrEqual(dist, closestDist) == dist <= closestDist

\* Line 197: a sphere replaces the closest one so far.
Closer(dist, closestDist) == dist < closestDist

\* Lines 199-204: the locals taken from the sphere hit at point.
Record(sphere, point, eyeVec, dist) ==
    [closestDist  |-> dist,
     normal       |-> Normalize(Sub(point, sphere.center)),
     intersection |-> point,
     color        |-> Materials[sphere.material].color,
     eye          |-> Normalize(eyeVec),
     roughness    |-> Materials[sphere.material].roughness]

\* Lines 196-205: the sphere's first point against the closest so far.
Consider(sphere, point, eyeVec, dist, acc) ==
    IF Closer(dist, acc.closestDist) THEN Record(sphere, point, eyeVec, dist) ELSE acc

\* Line 195: Vector3 eyeVec = intersections[0] - cameraPosition.
EyeVec(point, cameraPosition) == Sub(point, cameraPosition)

\* Lines 192-206: the body of the loop for one sphere.
Visit(sphere, intersections, cameraPosition, acc) ==
    IF Len(intersections) # 0
    THEN Consider(sphere, intersections[1].p,
                  EyeVec(intersections[1].p, cameraPosition),
                  Length(EyeVec(intersections[1].p, cameraPosition)), acc)
    ELSE acc

\* Lines 190-207: the loop over the spheres from index k on.
RECURSIVE ClosestHit(_, _, _, _, _)
ClosestHit(ray, spheres, cameraPosition, k, acc) ==
    IF k > Len(spheres) THEN acc
    ELSE ClosestHit(ray, spheres, cameraPosition, k + 1,
                    Visit(spheres[k], Intersect(ray, spheres[k]), cameraPosition, acc))

\* Line 219: intersection + normal * 0.001f.
BounceOrigin(intersection, normal) ==
    Add(intersection, Scale(normal, PosScale, DirScale * 1000))

\* Lines 209-210: the diffuse term, clamped below at 0.
Diffuse(normal) == Max(DirDot(normal, LightDir), 0)

\* Lines 212-217: the specular term.
Specular(normal, eye) ==
    powf(Max(DirDot(normal, Normalize(Add(Scale(eye, -1, 1), LightDir))), 0),
         specularExp)

\* Lines 221-226: occlusion scales both terms; the ambient floor.
Shadowed(loc, origin, occRay, occluded, occlusion) ==
    [origin       |-> origin,
     occRay       |-> occRay,
     occluded     |-> occluded,
     occCalls     |-> 1,
     specular     |-> Mul(Specular(loc.normal, loc.eye), occlusion),
     diffuseColor |-> Scale(loc.color,
                            Max(Mul(Diffuse(loc.normal), occlusion), ambient),
                            ColScale)]

\* Line 221: the occlusion query along occRay.
Queried(loc, occRay, occluded) ==
    Shadowed(loc, occRay.origin, occRay, occluded, IF occluded THEN 0 ELSE ColScale)

OcclusionRay(origin) == [origin |-> origin, direction |-> LightDir]

\* Lines 209-226: the lighting of the closest hit found (or of the locals'
\* defaults when nothing was hit), the occlusion query included.
Shade(loc, spheres) ==
    Queried(loc, OcclusionRay(BounceOrigin(loc.intersection, loc.normal)),
            TraceRayOcclusion(OcclusionRay(BounceOrigin(loc.intersection, loc.normal)),
                              spheres))

\* Line 228: nothing was hit.
Missed(closestDist) == closestDist = FLT_MAX

\* Mutant of CanRecurse: one level too many.
CanRecurseInclusive(recurse) == recurse <= MaxDepth

\* Line 234: the call may recurse.
CanRecurse(recurse) == recurse < MaxDepth

\* Lines 245-247: the colour of a call that recursed, from the callee's.
Blend(f, result) ==
    Lerp(Add(Scale(f.diffuseColor, f.roughness, ColScale),
             Scale(Scale(result, 1, numSamples), ColScale - f.roughness, ColScale)),
         White, f.specular)

\* Line 252: the colour of a call at the depth limit.
Leaf(f) == Lerp(f.diffuseColor, White, f.specular)

(*************************************************************************)
(* Render (SoftRT.cpp 257-310)                                           *)
(*************************************************************************)
\* Lines 297-304: the ray of pixel (i, j).
NearPlanePos(i, j, dx, dy) == <<-PosScale + dx * i, PosScale - dy * j, 0>>

PixelRay(i, j, width, height) ==
    [origin    |-> camPos,
     direction |-> Scale(Sub(NearPlanePos(i, j, DivRound(2 * PosScale, width),
                                          DivRound(2 * PosScale, height)), camPos),
                         DirScale, PosScale)]

\* Line 306: RGB(BYTE(Saturate(c) * 255), ...).
Byte(c) == DivTrunc(Saturate(c) * 255, ColScale)

RGB(color) == <<Byte(color[1]), Byte(color[2]), Byte(color[3])>>

\* Mutant of PixelAt: the coordinates are swapped.
PixelAtSwapped(i, j) == [x |-> j, y |-> i]

\* Line 307: SetPixel(hdc, i, j, fragmentColor) addresses pixel x = i, y = j.
PixelAt(i, j) == [x |-> i, y |-> j]

\* Line 293 and line 295: the loop conditions.
OuterCond(i, width) == i < width

InnerCond(j, height) == j < height

\* Lines 276-285: sphere k of the scene takes material (k - 1) % size.
WithMaterials(shapes) ==
    [k \in 1 .. Len(shapes) |->
        [center   |-> shapes[k].center,
         radius   |-> shapes[k].radius,
         material |-> ((k - 1) % Len(Materials)) + 1]]

(*************************************************************************)
(* State                                                                 *)
(*************************************************************************)
VARIABLES
    spheres,   \* the scene of Render, read-only while rendering
    width,     \* Render's arguments
    height,
    i,         \* Render's loop counters
    j,
    pc,        \* Render's position: "loop", "trace", "pixel", "done"
    stack,     \* the active calls of TraceRayRecurse, outermost first
    calls,     \* calls of TraceRayRecurse made for the current pixel
    ret,       \* the colour returned to Render by the depth-0 call
    last,      \* the call of TraceRayRecurse that returned last
    pixels,    \* the calls of SetPixel made so far, in order
    iray,      \* Intersect under test: the ray argument
    isphere,   \* Intersect under test: the sphere argument
    iresult,   \* Intersect under test: the returned vector
    ipc        \* "call" before Intersect has run, "ret" after, "off"

renderVars == <<spheres, width, height, i, j, pc, stack, calls, ret, last, pixels>>
intersectVars == <<iray, isphere, iresult, ipc>>
vars == <<spheres, width, height, i, j, pc, stack, calls, ret, last, pixels,
          iray, isphere, iresult, ipc>>

NoCall == [valid |-> FALSE]

(*************************************************************************)
(* Bounds of the model                                                   *)
(*************************************************************************)
\* The spheres a scene is made of (rand() in Render draws them).
Shapes == {
    [center |-> <<-500, 0, -750>>,    radius |-> 250],
    [center |-> <<-500, 0, -1300>>,   radius |-> 100],
    [center |-> <<-500, 0, -2250>>,   radius |-> 250],
    [center |-> <<-250, 250, -1250>>, radius |-> 150] }

MaxSpheres == 3
MaxDim == 2

RECURSIVE SeqsUpTo(_, _)
SeqsUpTo(S, n) ==
    IF n = 0 THEN {<<>>}
    ELSE LET shorter == SeqsUpTo(S, n - 1)
         IN  shorter \cup {Append(q, x) : q \in shorter, x \in S}

Scenes == {WithMaterials(q) : q \in SeqsUpTo(Shapes, MaxSpheres)}

Dims == -1 .. MaxDim

(*************************************************************************)
(* The specification of Render                                           *)
(*************************************************************************)
Init ==
    /\ spheres \in Scenes
    /\ width \in Dims
    /\ height \in Dims
    /\ i = 0
    /\ j = 0
    /\ pc = "loop"
    /\ stack = <<>>
    /\ calls = 0
    /\ ret = <<0, 0, 0>>
    /\ last = NoCall
    /\ pixels = <<>>
    /\ iray = [origin |-> <<0, 0, 0>>, direction |-> <<0, 0, 1>>]
    /\ isphere = [center |-> <<0, 0, 0>>, radius |-> 0, material |-> 0]
    /\ iresult = <<>>
    /\ ipc = "off"

\* A call of TraceRayRecurse that has not run yet.  The locals declared
\* further down the body hold zeros until their lines run.
NewFrame(ray, recurse) ==
    [stage        |-> "scan",
     ray          |-> ray,
     recurse      |-> recurse,
     closestDist  |-> ScanInit.closestDist,
     normal       |-> ScanInit.normal,
     intersection |-> ScanInit.intersection,
     color        |-> ScanInit.color,
     eye          |-> ScanInit.eye,
     roughness    |-> ScanInit.roughness,
     origin       |-> <<0, 0, 0>>,
     occRay       |-> [origin |-> <<0, 0, 0>>, direction |-> <<0, 0, 0>>],
     occluded     |-> FALSE,
     occCalls     |-> 0,
     specular     |-> 0,
     diffuseColor |-> <<0, 0, 0>>,
     result       |-> <<0, 0, 0>>]

Top == stack[Len(stack)]

SetTop(f) == [stack EXCEPT ![Len(stack)] = f]

\* Lines 295-305: the inner loop's body up to the call at depth 0.
RenderTracePixel ==
    /\ pc = "loop"
    /\ OuterCond(i, width)
    /\ InnerCond(j, height)
    /\ stack' = <<NewFrame(PixelRay(i, j, width, height), 0)>>
    /\ calls' = 1
    /\ pc' = "trace"
    /\ UNCHANGED <<spheres, width, height, i, j, ret, last, pixels>>
    /\ UNCHANGED intersectVars

\* Lines 306-307: SetPixel and ++j.
RenderSetPixel ==
    /\ pc = "pixel"
    /\ pixels' = Append(pixels, [at |-> PixelAt(i, j), rgb |-> RGB(ret)])
    /\ j' = j + 1
    /\ pc' = "loop"
    /\ UNCHANGED <<spheres, width, height, i, stack, calls, ret, last>>
    /\ UNCHANGED intersectVars

\* Line 293: the inner loop is over, ++i.
RenderNextColumn ==
    /\ pc = "loop"
    /\ OuterCond(i, width)
    /\ ~InnerCond(j, height)
    /\ i' = i + 1
    /\ j' = 0
    /\ UNCHANGED <<spheres, width, height, pc, stack, calls, ret, last, pixels>>
    /\ UNCHANGED intersectVars

\* Line 310: the outer loop is over.
RenderReturn ==
    /\ pc = "loop"
    /\ ~OuterCond(i, width)
    /\ pc' = "done"
    /\ UNCHANGED <<spheres, width, height, i, j, stack, calls, ret, last, pixels>>
    /\ UNCHANGED intersectVars

Scanned(f, loc) ==
    [f EXCEPT !.stage = "shade",
              !.closestDist = loc.closestDist,
              !.normal = loc.normal,
              !.intersection = loc.intersection,
              !.color = loc.color,
              !.eye = loc.eye,
              !.roughness = loc.roughness]

Shaded(f, sh) ==
    [f EXCEPT !.stage = "branch",
              !.origin = sh.origin,
              !.occRay = sh.occRay,
              !.occluded = sh.occluded,
              !.occCalls = f.occCalls + sh.occCalls,
              !.specular = sh.specular,
              !.diffuseColor = sh.diffuseColor]

\* Lines 183-207 of the innermost call.
TraceScan ==
    /\ pc = "trace"
    /\ Top.stage = "scan"
    /\ stack' = SetTop(Scanned(Top, ClosestHit(Top.ray, spheres, camPos, 1, ScanInit)))
    /\ UNCHANGED <<spheres, width, height, i, j, pc, calls, ret, last, pixels>>
    /\ UNCHANGED intersectVars

\* Lines 209-226 of the innermost call.
TraceShade ==
    /\ pc = "trace"
    /\ Top.stage = "shade"
    /\ stack' = SetTop(Shaded(Top, Shade(Top, spheres)))
    /\ UNCHANGED <<spheres, width, height, i, j, pc, calls, ret, last, pixels>>
    /\ UNCHANGED intersectVars

\* The innermost call returns value: to its caller, or to Render.
Return(value) ==
    /\ last' = [valid |-> TRUE, ray |-> Top.ray, recurse |-> Top.recurse,
                closestDist |-> Top.closestDist, occCalls |-> Top.occCalls,
                value |-> value]
    /\ IF Len(stack) = 1
       THEN /\ stack' = <<>>
            /\ ret' = value
            /\ pc' = "pixel"
       ELSE /\ stack' = [k \in 1 .. Len(stack) - 1 |->
                           IF k = Len(stack) - 1
                           THEN [stack[k] EXCEPT !.stage = "resume", !.result = value]
                           ELSE stack[k]]
            /\ UNCHANGED <<ret, pc>>
    /\ UNCHANGED <<spheres, width, height, i, j, calls, pixels>>
    /\ UNCHANGED intersectVars

\* Lines 228-231: nothing was hit.
TraceReturnSky ==
    /\ pc = "trace"
    /\ Top.stage = "branch"
    /\ Missed(Top.closestDist)
    /\ Return(SkyCol)

\* Lines 234-241: the recursive call.
TraceRecurse ==
    /\ pc = "trace"
    /\ Top.stage = "branch"
    /\ ~Missed(Top.closestDist)
    /\ CanRecurse(Top.recurse)
    /\ stack' = Append(SetTop([Top EXCEPT !.stage = "wait"]),
                       NewFrame([origin |-> Top.origin, direction |-> Top.normal],
                                Top.recurse + 1))
    /\ calls' = calls + 1
    /\ UNCHANGED <<spheres, width, height, i, j, pc, ret, last, pixels>>
    /\ UNCHANGED intersectVars

\* Lines 245-247: the recursive call has returned.
TraceResume ==
    /\ pc = "trace"
    /\ Top.stage = "resume"
    /\ Return(Blend(Top, Top.result))

\* Lines 250-253: the depth limit.
TraceReturnLeaf ==
    /\ pc = "trace"
    /\ Top.stage = "branch"
    /\ ~Missed(Top.closestDist)
    /\ ~CanRecurse(Top.recurse)
    /\ Return(Leaf(Top))

Next ==
    \/ RenderTracePixel
    \/ RenderSetPixel
    \/ RenderNextColumn
    \/ RenderReturn
    \/ TraceScan
    \/ TraceShade
    \/ TraceReturnSky
    \/ TraceRecurse
    \/ TraceResume
    \/ TraceReturnLeaf

Spec == Init /\ [][Next]_vars

(*************************************************************************)
(* The specification of Intersect as a function of its arguments         *)
(*************************************************************************)
MaxCoord == 2
Coord == (-MaxCoord) .. MaxCoord
DirCoord == {-1, 0, 1, 2}
RadiusSet == {0, 1, 2, 4, 7}
OriginSet == {<<0, 0, 0>>, <<1, -1, 0>>}

InitIntersect ==
    /\ \E o \in OriginSet, dx \in DirCoord, dy \in DirCoord, dz \in DirCoord :
          /\ <<dx, dy, dz>> # <<0, 0, 0>>
          /\ iray = [origin |-> o, direction |-> <<dx, dy, dz>>]
    /\ \E cx \in Coord, cy \in Coord, cz \in Coord, r \in RadiusSet :
          isphere = [center |-> <<cx, cy, cz>>, radius |-> r, material |-> 0]
    /\ iresult = <<>>
    /\ ipc = "call"
    /\ spheres = <<>>
    /\ width = 0
    /\ height = 0
    /\ i = 0
    /\ j = 0
    /\ pc = "off"
    /\ stack = <<>>
    /\ calls = 0
    /\ ret = <<0, 0, 0>>
    /\ last = NoCall
    /\ pixels = <<>>

CallIntersect ==
    /\ ipc = "call"
    /\ iresult' = Intersect(iray, isphere)
    /\ ipc' = "ret"
    /\ UNCHANGED <<iray, isphere>>
    /\ UNCHANGED renderVars

NextIntersect == CallIntersect

SpecIntersect == InitIntersect /\ [][NextIntersect]_vars

(*************************************************************************)
(* Properties of Intersect                                               *)
(*************************************************************************)
\* The sign of the root nb + s * sqrt(disc) over a positive denominator.
RootSign(t) ==
    LET sq == t.nb * t.nb
    IN  IF t.s = 1
        THEN IF t.nb > 0 THEN 1
             ELSE IF t.nb = 0 THEN (IF t.disc > 0 THEN 1 ELSE 0)
             ELSE IF t.disc > sq THEN 1 ELSE IF t.disc = sq THEN 0 ELSE -1
        ELSE IF t.nb <= 0 THEN (IF t.nb = 0 /\ t.disc = 0 THEN 0 ELSE -1)
             ELSE IF sq > t.disc THEN 1 ELSE IF sq = t.disc THEN 0 ELSE -1

\* x <= y for two roots of one quadratic.
RootLeq(x, y) == x.s <= y.s \/ x.disc = 0

\* The discriminant of the ray and the sphere, from the geometry.
Discriminant(ray, sphere) ==
    LET L == Sub(ray.origin, sphere.center)
        h == Dot(ray.direction, L)
    IN  4 * h * h - 4 * Dot(ray.direction, ray.direction)
                      * (Dot(L, L) - sphere.radius * sphere.radius)

Cross(u, v) ==
    <<u[2] * v[3] - u[3] * v[2], u[3] * v[1] - u[1] * v[3], u[1] * v[2] - u[2] * v[1]>>

\* The ray's direction is a positive multiple of (centre - origin).
AimedAtCentre(ray, sphere) ==
    LET toCentre == Sub(sphere.center, ray.origin)
    IN  /\ Cross(ray.direction, toCentre) = <<0, 0, 0>>
        /\ Dot(ray.direction, toCentre) > 0

OriginOutside(ray, sphere) ==
    LET L == Sub(ray.origin, sphere.center)
    IN  Dot(L, L) > sphere.radius * sphere.radius

OriginInside(ray, sphere) ==
    LET L == Sub(ray.origin, sphere.center)
    IN  Dot(L, L) < sphere.radius * sphere.radius

Returned == ipc = "ret"

\* C1: Intersect returns 0, 1 or 2 points, each at a parametric distance
\* t >= 0 along the ray, and of two points the first has the smaller t.
C1_IntersectForwardOrdered ==
    Returned =>
        /\ Len(iresult) \in {0, 1, 2}
        /\ \A k \in 1 .. Len(iresult) :
              /\ RootSign(iresult[k].t) >= 0
              /\ iresult[k].p = PointAt(iray, iresult[k].t)
        /\ Len(iresult) = 2 =>
              /\ RootLeq(iresult[1].t, iresult[2].t)
              /\ ~RootLeq(iresult[2].t, iresult[1].t)

\* C1 witness: two points were returned and the swap put the nearer first.
C1_Witness ==
    /\ Returned
    /\ Len(iresult) = 2
    /\ iresult[1].t.s = -1
    /\ iresult[1].p # iresult[2].p

\* C6 as stated: every ray from outside a sphere aimed at its centre gets
\* exactly 2 points, the nearer first.
C6_Original ==
    (Returned /\ OriginOutside(iray, isphere) /\ AimedAtCentre(iray, isphere)) =>
        /\ Len(iresult) = 2
        /\ RootLeq(iresult[1].t, iresult[2].t)

\* C6 amended: a ray from outside a sphere aimed at its centre gets exactly
\* 2 points, the nearer first, when its discriminant 4 |d|^2 r^2 exceeds
\* kEpsilon; when it does not (radius 0, or a small radius with a short
\* direction) it gets exactly 1 point.
C6_AimedAtCentre ==
    (Returned /\ OriginOutside(iray, isphere) /\ AimedAtCentre(iray, isphere)) =>
        LET d4 == 4 * Dot(iray.direction, iray.direction)
                    * isphere.radius * isphere.radius
        IN  IF d4 > kEpsilon
            THEN /\ Len(iresult) = 2
                 /\ RootLeq(iresult[1].t, iresult[2].t)
                 /\ ~RootLeq(iresult[2].t, iresult[1].t)
                 /\ RootSign(iresult[1].t) > 0
            ELSE Len(iresult) = 1

\* C6 witness: an aimed ray from outside whose two points were returned.
C6_Witness ==
    /\ Returned
    /\ OriginOutside(iray, isphere)
    /\ AimedAtCentre(iray, isphere)
    /\ isphere.radius > 0
    /\ Len(iresult) = 2

\* C7 as stated: a discriminant in [0, kEpsilon] gives exactly one point.
C7_Original ==
    (Returned /\ Discriminant(iray, isphere) \in 0 .. kEpsilon) =>
        Len(iresult) = 1

\* C7 amended: a discriminant in [0, kEpsilon] never gives two points; it
\* gives exactly one point, that of the root t0, when t0 >= 0, and none
\* when the tangent point lies behind the ray's origin (t0 < 0).
C7_Tangent ==
    (Returned /\ Discriminant(iray, isphere) \in 0 .. kEpsilon) =>
        LET q == Coeffs(iray, isphere)
            t0 == [nb |-> -q.b, s |-> 1, disc |-> Discriminant(iray, isphere),
                   den |-> 2 * q.a]
        IN  /\ Len(iresult) <= 1
            /\ (Len(iresult) = 1) <=> (RootSign(t0) >= 0)
            /\ Len(iresult) = 1 => iresult[1].t = t0

\* C7 witness: a grazing ray (0 < discriminant <= kEpsilon) got one point.
C7_Witness ==
    /\ Returned
    /\ Discriminant(iray, isphere) \in 1 .. kEpsilon
    /\ Len(iresult) = 1

\* C8: a ray whose origin is strictly inside the sphere gets exactly one
\* point, the exit point at t > 0; the entry root is not returned.
C8_OriginInside ==
    (Returned /\ OriginInside(iray, isphere)) =>
        /\ Len(iresult) = 1
        /\ iresult[1].t.s = 1
        /\ RootSign(iresult[1].t) > 0

\* C8 witness: the origin is inside, the discriminant exceeds kEpsilon (the
\* entry root was computed and rejected) and one point was returned.
C8_Witness ==
    /\ Returned
    /\ OriginInside(iray, isphere)
    /\ Discriminant(iray, isphere) > kEpsilon
    /\ Len(iresult) = 1

(*************************************************************************)
(* Properties of TraceRayOcclusion, TraceRayRecurse and Render           *)
(*************************************************************************)
\* The spheres of the scene that ray intersects at some t >= 0.
HitSet(ray) == {k \in 1 .. Len(spheres) : Intersect(ray, spheres[k]) # <<>>}

FirstPoint(ray, k) == Intersect(ray, spheres[k])[1].p

\* The distance of sphere k's first point from the camera.
CamDist(ray, k) == Length(Sub(FirstPoint(ray, k), camPos))

\* The distance of sphere k's first point from the ray's origin.
OriginDist(ray, k) == Length(Sub(FirstPoint(ray, k), ray.origin))

\* The sphere nearest to the camera, the earliest of the scene on a tie.
Best(ray) ==
    LET hits == HitSet(ray)
        d == [k \in hits |-> CamDist(ray, k)]
    IN  CHOOSE k \in hits :
            \A m \in hits : d[k] < d[m] \/ (d[k] = d[m] /\ k <= m)

\* The innermost call of TraceRayRecurse, when there is one.
Innermost == IF stack = <<>> THEN {} ELSE {stack[Len(stack)]}

Frames == {stack[k] : k \in 1 .. Len(stack)}

\* C2: one pixel's trace is a single chain of calls: call k of the chain
\* runs at depth k - 1, no depth exceeds 8, at most 9 calls are made, a
\* call has recursed only if its depth is below 8 and (checked while its
\* callee is the innermost call) its ray hit a sphere, and the innermost
\* call is never the one waiting (the trace always has a next step).
C2_BoundedRecursion ==
    /\ Len(stack) <= 9
    /\ calls <= 9
    /\ calls >= Len(stack)
    /\ \A k \in 1 .. Len(stack) : stack[k].recurse = k - 1 /\ stack[k].recurse <= 8
    /\ \A k \in 1 .. Len(stack) - 1 : stack[k].stage = "wait" /\ stack[k].recurse < 8
    /\ Len(stack) >= 2 => HitSet(stack[Len(stack) - 1].ray) # {}
    /\ \A f \in Frames : f.stage \in {"wait", "resume"} => calls >= f.recurse + 2
    /\ pc = "trace" =>
          /\ stack # <<>>
          /\ stack[Len(stack)].stage \in {"scan", "shade", "branch", "resume"}

\* C2 witness: the chain reached its ninth call, at depth 8, which hit a
\* sphere and is about to return without recursing.
C2_Witness ==
    /\ Len(stack) = 9
    /\ stack[9].recurse = 8
    /\ stack[9].stage = "branch"
    /\ HitSet(stack[9].ray) # {}
    /\ calls = 9

\* C3: a call of TraceRayRecurse whose ray intersects no sphere of the
\* scene at t >= 0 returns exactly SkyCol, at every depth.
C3_MissReturnsSky ==
    (last.valid /\ HitSet(last.ray) = {}) => last.value = <<750, 750, 1000>>

\* C3 witness: in a scene with spheres, a bounced ray (depth >= 1) missed
\* them all and its call has returned.
C3_Witness ==
    /\ last.valid
    /\ Len(spheres) > 0
    /\ last.recurse >= 1
    /\ HitSet(last.ray) = {}
    /\ last.value = SkyCol

\* The pixels of a width x height surface in column-major order.
ColumnMajor(w, h) ==
    IF w <= 0 \/ h <= 0 THEN <<>>
    ELSE [n \in 1 .. w * h |-> [x |-> (n - 1) \div h, y |-> (n - 1) % h]]

\* C4: Render calls SetPixel once per pixel of the surface, never outside
\* it, x outer and y inner; a width or height <= 0 gives no call.
C4_SetPixelOncePerPixel ==
    LET expected == ColumnMajor(width, height)
    IN  /\ Len(pixels) <= Len(expected)
        /\ \A n \in 1 .. Len(pixels) : pixels[n].at = expected[n]
        /\ pc = "done" => Len(pixels) = Len(expected)

\* C4 witness: Render is done with a 1 x 2 surface, two pixels written.
C4_Witness ==
    /\ pc = "done"
    /\ width = 1
    /\ height = 2
    /\ Len(pixels) = 2

\* C5: TraceRayOcclusion returns true exactly when some sphere of the
\* scene has a non-empty Intersect result for the ray (never for an empty
\* scene).  Checked on the query of the innermost call, which every call
\* is when it makes its query.
C5_OcclusionIffSomeHit ==
    \A f \in Innermost :
        f.occCalls > 0 => (f.occluded <=> HitSet(f.occRay) # {})

\* C5 witness: a query returned true for a ray that the first sphere of
\* the scene does not intersect.
C5_Witness ==
    \E f \in Frames :
        /\ f.occCalls > 0
        /\ f.occluded
        /\ 1 \notin HitSet(f.occRay)

\* C9: the sphere shaded by a call is, among the spheres its ray
\* intersects, the one whose first point is nearest to the camera, the
\* earliest of the scene when several tie.  Checked on the innermost call,
\* which every call is when its loop over the spheres ends.
C9_ClosestToCamera ==
    \A f \in Innermost :
        f.stage # "scan" =>
            IF HitSet(f.ray) = {}
            THEN /\ f.closestDist = FLT_MAX
                 /\ f.color = <<0, 0, 0>>
            ELSE LET b == Best(f.ray)
                 IN  /\ f.closestDist = CamDist(f.ray, b)
                     /\ f.intersection = FirstPoint(f.ray, b)
                     /\ f.normal = Normalize(Sub(FirstPoint(f.ray, b), spheres[b].center))
                     /\ f.color = Materials[spheres[b].material].color
                     /\ f.roughness = Materials[spheres[b].material].roughness

\* C9 witness: a bounced ray (its origin is not the camera) intersects two
\* spheres, and the one chosen is not the one nearest to the ray's origin.
C9_Witness ==
    \E f \in Frames :
        /\ f.stage # "scan"
        /\ f.recurse >= 1
        /\ \E m \in HitSet(f.ray) :
              /\ m # Best(f.ray)
              /\ OriginDist(f.ray, m) < OriginDist(f.ray, Best(f.ray))
              /\ CamDist(f.ray, m) > CamDist(f.ray, Best(f.ray))
        /\ f.intersection = FirstPoint(f.ray, Best(f.ray))

\* C10 as stated: a call whose ray hits no sphere issues no occlusion
\* query.
C10_NoQueryOnMiss ==
    /\ \A f \in Innermost :
          (f.stage # "scan" /\ HitSet(f.ray) = {}) => f.occCalls = 0
    /\ (last.valid /\ HitSet(last.ray) = {}) => last.occCalls = 0

=============================================================================
